---- MODULE Spec2Model ----
(***************************************************************************)
(* A model of src/main.rs: the lazy video pipeline built by decode_frame   *)
(* (packets -> decoder -> pixel conversion -> letterbox rescale), and the   *)
(* VideoPlayer that pulls one frame per render callback and paces it with  *)
(* frame_limiter.  Durations are whole milliseconds.                       *)
(***************************************************************************)
EXTENDS Integers, Sequences, FiniteSets, TLC

\* ---------------------------------------------------------------- bounds
\* Video packets routed to the pipeline (at least one, main.rs:74-77).
MaxPackets == 2
\* Frames the decoder can make available after one successful submission.
MaxRel == 2
\* Render callbacks executed by the endless loop of main.
MaxCallbacks == 4
\* Displayed frames whose pacing is remembered in hist.
HistLen == 4
\* Packets of the container given to the router alone.
MaxInput == 4
MaxStartupInput == 3
MaxStartupCallbacks == 2

\* Average frame rates of the video stream (frames per second).
FrameRates == {30}
\* Values Instant::elapsed can return in a callback (milliseconds).
ElapsedValues == {0, 20, 33, 53, 1100}

\* ------------------------------------------------------------- constants
\* Duration::from_millis(1000): the extended-debt threshold.
ExtendedDebt == 1000
\* The value of an Option::None frame.
NoFrame == 0
\* Marks a callback branch in which sleep is not called.
NoSleep == -1
\* Marks a Duration subtraction whose right side exceeds its left side
\* (the subtraction panics in Rust).
Underflow == -2

VARIABLES
    frames,         \* VideoPlayer.frames: the lazy video pipeline
    frames_played,  \* VideoPlayer.frames_played
    frame_rate,     \* VideoPlayer.frame_rate
    instant,        \* VideoPlayer.instant: the callback that last reset it
    broken,         \* VideoPlayer.broken: the accumulated debt
    plays,          \* play_sound_once calls made on VideoPlayer.audio
    callbacks,      \* iterations of the loop of main executed so far
    shown,          \* the frame the last callback handed to draw_texture
    hist,           \* pacing of the last displayed frames, oldest first
    errorEver,      \* error! of frame_limiter was ever emitted
    panicked,       \* a Duration subtraction underflowed
    pc,             \* where main is: before, in or after get_video_player
    input,          \* the demuxed container: input.streams(), input.packets()
    routed,         \* video_packets and audio_packets of get_video_player
    apipe,          \* the audio iterator returned by decode_frame
    wav,            \* the result of build_wav_from_raw
    audio,          \* VideoPlayer.audio, and how its buffer was built
    screen,         \* screen_width() and screen_height(), in half pixels
    box             \* destination box of the frame last displayed

vars == <<frames, frames_played, frame_rate, instant, broken, plays,
          callbacks, shown, hist, errorEver, panicked,
          pc, input, routed, apipe, wav, audio, screen, box>>

\* The variables of the player proper, and those of its construction.
playerVars == <<frames, frames_played, frame_rate, instant, broken, plays,
                callbacks, shown, hist, errorEver, panicked, box>>
startupVars == <<input, routed, apipe, wav, audio>>

\* ------------------------------------------------------------- durations
\* Duration - Duration: panics when the result would be negative.
DurSub(a, b) ==
    IF a = Underflow \/ b = Underflow \/ a < b THEN Underflow ELSE a - b

\* Duration::saturating_sub.
SaturatingSub(a, b) ==
    IF a = Underflow \/ b = Underflow THEN Underflow
    ELSE IF a < b THEN 0 ELSE a - b

\* Duration += Duration.
DurAdd(a, b) ==
    IF a = Underflow \/ b = Underflow THEN Underflow ELSE a + b

\* Duration::from_secs_f64(1. / frame_rate), in whole milliseconds.
FrameDuration(rate) == 1000 \div rate

\* ------------------------------------------------------- the video pipeline
\* Packet payloads: a packet with an empty payload satisfies is_empty().
Payloads == {"data", "empty"}

RECURSIVE PacketSeqs(_)
PacketSeqs(n) ==
    IF n = 0 THEN {<<>>}
    ELSE {Append(s, x) : s \in PacketSeqs(n - 1), x \in Payloads}

\* The video substream handed to decode_frame: never empty.
VideoPacketSeqs == UNION {PacketSeqs(n) : n \in 1..MaxPackets}

\* The failures a pull can meet.
FailureKinds == {"send", "scaler", "letterbox"}

\* The pipeline right after decode_frame returned it.
NewPipeline(pkts) ==
    [packets   |-> pkts,    \* video_packets.into_iter(), what is left of it
     sentinel  |-> TRUE,    \* once(Packet::empty()) not yet yielded
     eof       |-> FALSE,   \* vdecoder has taken send_eof
     ready     |-> 0,       \* frames vdecoder holds ready to be received
     nextId    |-> 1,       \* number of the next frame receive_frame yields
     frontiter |-> <<>>,    \* Flatten: the batch being handed out
     fused     |-> FALSE,   \* Flatten: the packet iterator returned None
     failed    |-> {},      \* kinds of failure met so far
     lbfail    |-> FALSE,   \* the last pull ended on a failed letterbox rescale
     eofCalled |-> FALSE,   \* send_eof has been called on vdecoder
     lateSend  |-> FALSE,   \* send_packet was called after send_eof
     eofAt     |-> 0,       \* number of the first frame released by the flush
     lost      |-> 0,       \* frames received from vdecoder and then dropped
     lostFlushed |-> FALSE] \* a frame released by the flush was dropped

\* send_eof / send_packet: the set of [p, ok] it can end in.  Once the decoder
\* has been flushed it refuses every further submission.
SendOutcomes(p, pkt) ==
    LET called  == IF pkt = "empty" THEN [p EXCEPT !.eofCalled = TRUE]
                   ELSE [p EXCEPT !.lateSend = @ \/ p.eofCalled]
        refused == [p |-> [called EXCEPT !.failed = @ \cup {"send"}],
                    ok |-> FALSE]
        taken   == [p |-> IF pkt = "empty"
                          THEN [called EXCEPT !.eof = TRUE,
                                              !.eofAt = p.nextId + p.ready]
                          ELSE called,
                    ok |-> TRUE]
    IN  IF p.eof THEN {refused} ELSE {refused, taken}

\* Frames nextId .. nextId + n - 1, in receive order.
Batch(first, n) == [i \in 1..n |-> first + i - 1]

\* The receive loop with scaler.run: either every ready frame is converted
\* and the batch is Some, or the conversion of the j-th fails and the closure
\* returns None, losing the frames received in this loop.
ReceiveLoop(p) ==
    UNION {
        LET avail == p.ready + r IN
        {[p |-> [p EXCEPT !.ready = 0, !.nextId = @ + avail],
          some |-> TRUE, batch |-> Batch(p.nextId, avail)]}
        \cup
        {[p |-> [p EXCEPT !.ready = avail - j, !.nextId = @ + j,
                          !.failed = @ \cup {"scaler"},
                          !.lost = @ + j,
                          !.lostFlushed = @ \/ (p.eof /\ r > 0)],
          some |-> FALSE, batch |-> <<>>] : j \in 1..avail}
        : r \in 0..MaxRel}

\* The filter_map closure of the video pipeline applied to one packet.
VideoClosure(p, pkt) ==
    UNION {IF s.ok THEN ReceiveLoop(s.p)
           ELSE {[p |-> s.p, some |-> FALSE, batch |-> <<>>]}
           : s \in SendOutcomes(p, pkt)}

RECURSIVE FilterMapNext(_)

\* A variant in which a closure result of None ends the packet iterator, as
\* map_while would.
FilterMapStop(o) == {[p |-> o.p, some |-> FALSE, batch |-> <<>>]}

\* A closure result of None is skipped by filter_map: the next packet is tried.
FilterMapSkip(o) == FilterMapNext(o.p)

\* A variant without .chain(once(Packet::empty())): the decoder is never
\* flushed by the pipeline itself.
FilterMapNextNoFlush(p) ==
    IF p.packets # <<>> THEN
        UNION {IF o.some THEN {o} ELSE FilterMapSkip(o)
               : o \in VideoClosure([p EXCEPT !.packets = Tail(@)],
                                    Head(p.packets))}
    ELSE {[p |-> [p EXCEPT !.sentinel = FALSE], some |-> FALSE, batch |-> <<>>]}

\* FilterMap::next over packets.chain(once(Packet::empty())): the set of
\* [p, some, batch]; some = FALSE means the chain is used up.
FilterMapNext(p) ==
    IF p.packets # <<>> THEN
        UNION {IF o.some THEN {o} ELSE FilterMapSkip(o)
               : o \in VideoClosure([p EXCEPT !.packets = Tail(@)],
                                    Head(p.packets))}
    ELSE IF p.sentinel THEN
        UNION {IF o.some THEN {o} ELSE FilterMapSkip(o)
               : o \in VideoClosure([p EXCEPT !.sentinel = FALSE], "empty")}
    ELSE {[p |-> p, some |-> FALSE, batch |-> <<>>]}

RECURSIVE FlattenNext(_)

\* A variant of Flatten::next that hands a batch out from its back.
FlattenNextFromBack(p) ==
    IF p.frontiter # <<>> THEN
        {[p |-> [p EXCEPT !.frontiter = SubSeq(@, 1, Len(@) - 1)],
          item |-> p.frontiter[Len(p.frontiter)]]}
    ELSE IF p.fused THEN {[p |-> p, item |-> NoFrame]}
    ELSE UNION {IF o.some THEN FlattenNext([o.p EXCEPT !.frontiter = o.batch])
                ELSE {[p |-> [o.p EXCEPT !.fused = TRUE], item |-> NoFrame]}
                : o \in FilterMapNext(p)}

\* Flatten::next: the set of [p, item].
FlattenNext(p) ==
    IF p.frontiter # <<>> THEN
        {[p |-> [p EXCEPT !.frontiter = Tail(@)], item |-> Head(p.frontiter)]}
    ELSE IF p.fused THEN {[p |-> p, item |-> NoFrame]}
    ELSE UNION {IF o.some THEN FlattenNext([o.p EXCEPT !.frontiter = o.batch])
                ELSE {[p |-> [o.p EXCEPT !.fused = TRUE], item |-> NoFrame]}
                : o \in FilterMapNext(p)}

\* map(retain_aspect_ratio_scale) followed by map_while(Result::ok).
\* MapWhile::next is `let x = self.iter.next()?; (self.predicate)(x)`: it
\* keeps no flag, so a None it returned does not stop later pulls.
MapWhileNext(p) ==
    UNION {IF o.item = NoFrame THEN {o}
           ELSE {o, [p |-> [o.p EXCEPT !.failed = @ \cup {"letterbox"},
                                       !.lbfail = TRUE,
                                       !.lost = @ + 1,
                                       !.lostFlushed =
                                           @ \/ (o.p.eof /\ o.item >= o.p.eofAt)],
                     item |-> NoFrame]}
           : o \in FlattenNext([p EXCEPT !.lbfail = FALSE])}

\* Peekable::next with nothing peeked (peek is never called on frames).
PeekableNext(p) == MapWhileNext(p)

\* -------------------------------------------------------------- the pacer
\* Variants of frame_limiter with one slip each.
\* Sleeps the whole slack, forgetting the debt.
frame_limiter_sleeps_slack(debt, fd, elapsed) ==
    IF elapsed < fd THEN
        IF DurSub(fd, elapsed) >= debt THEN
            [sleep |-> DurSub(fd, elapsed), broken |-> 0,
             error |-> FALSE, warn |-> FALSE]
        ELSE
            [sleep |-> 0, broken |-> SaturatingSub(debt, DurSub(fd, elapsed)),
             error |-> FALSE, warn |-> FALSE]
    ELSE
        [sleep |-> NoSleep, broken |-> DurAdd(debt, DurSub(elapsed, fd)),
         error |-> debt > ExtendedDebt, warn |-> TRUE]

\* Subtracts the debt from the slack without comparing them first.
frame_limiter_unguarded(debt, fd, elapsed) ==
    IF elapsed < fd THEN
        [sleep |-> DurSub(DurSub(fd, elapsed), debt), broken |-> 0,
         error |-> FALSE, warn |-> FALSE]
    ELSE
        [sleep |-> NoSleep, broken |-> DurAdd(debt, DurSub(elapsed, fd)),
         error |-> debt > ExtendedDebt, warn |-> TRUE]

\* Does not reset the debt after repaying it in full.
frame_limiter_keeps_debt(debt, fd, elapsed) ==
    IF elapsed < fd THEN
        IF DurSub(fd, elapsed) >= debt THEN
            [sleep |-> DurSub(DurSub(fd, elapsed), debt), broken |-> debt,
             error |-> FALSE, warn |-> FALSE]
        ELSE
            [sleep |-> 0, broken |-> SaturatingSub(debt, DurSub(fd, elapsed)),
             error |-> FALSE, warn |-> FALSE]
    ELSE
        [sleep |-> NoSleep, broken |-> DurAdd(debt, DurSub(elapsed, fd)),
         error |-> debt > ExtendedDebt, warn |-> TRUE]

\* Does not reduce the debt on a partial repayment.
frame_limiter_no_repayment(debt, fd, elapsed) ==
    IF elapsed < fd THEN
        IF DurSub(fd, elapsed) >= debt THEN
            [sleep |-> DurSub(DurSub(fd, elapsed), debt), broken |-> 0,
             error |-> FALSE, warn |-> FALSE]
        ELSE
            [sleep |-> 0, broken |-> debt, error |-> FALSE, warn |-> FALSE]
    ELSE
        [sleep |-> NoSleep, broken |-> DurAdd(debt, DurSub(elapsed, fd)),
         error |-> debt > ExtendedDebt, warn |-> TRUE]

\* Adds the whole elapsed time to the debt instead of the overrun.
frame_limiter_adds_elapsed(debt, fd, elapsed) ==
    IF elapsed < fd THEN
        IF DurSub(fd, elapsed) >= debt THEN
            [sleep |-> DurSub(DurSub(fd, elapsed), debt), broken |-> 0,
             error |-> FALSE, warn |-> FALSE]
        ELSE
            [sleep |-> 0, broken |-> SaturatingSub(debt, DurSub(fd, elapsed)),
             error |-> FALSE, warn |-> FALSE]
    ELSE
        [sleep |-> NoSleep, broken |-> DurAdd(debt, elapsed),
         error |-> debt > ExtendedDebt, warn |-> TRUE]

\* Forgets to add the overrun of a late frame to the debt.
frame_limiter_forgets_overrun(debt, fd, elapsed) ==
    IF elapsed < fd THEN
        IF DurSub(fd, elapsed) >= debt THEN
            [sleep |-> DurSub(DurSub(fd, elapsed), debt), broken |-> 0,
             error |-> FALSE, warn |-> FALSE]
        ELSE
            [sleep |-> 0, broken |-> SaturatingSub(debt, DurSub(fd, elapsed)),
             error |-> FALSE, warn |-> FALSE]
    ELSE
        [sleep |-> NoSleep, broken |-> debt,
         error |-> debt > ExtendedDebt, warn |-> TRUE]

\* frame_limiter: what it does with debt `debt`, interval `fd` and measured
\* `elapsed`: the sleep it requests, the new debt, and the messages it logs.
frame_limiter(debt, fd, elapsed) ==
    IF elapsed < fd THEN
        IF DurSub(fd, elapsed) >= debt THEN
            [sleep  |-> DurSub(DurSub(fd, elapsed), debt),
             broken |-> 0,
             error  |-> FALSE, warn |-> FALSE]
        ELSE
            [sleep  |-> 0,
             broken |-> SaturatingSub(debt, DurSub(fd, elapsed)),
             error  |-> FALSE, warn |-> FALSE]
    ELSE
        [sleep  |-> NoSleep,
         broken |-> DurAdd(debt, DurSub(elapsed, fd)),
         error  |-> debt > ExtendedDebt, warn |-> TRUE]

\* hist keeps the last HistLen entries.
Remember(h, e) ==
    LET all == Append(h, e) IN
    IF Len(all) > HistLen THEN Tail(all) ELSE all

\* ------------------------------------------------------------- the viewport
\* Viewport sizes the renderer can report: f32 values, kept in half pixels.
Viewports == {[w2 |-> 63, h2 |-> 96], [w2 |-> 129, h2 |-> 97],
              [w2 |-> 200, h2 |-> 150]}
\* The viewport when the window opens.
InitialViewport == [w2 |-> 200, h2 |-> 150]

\* `x as u32` of a non-negative f32 given in half pixels: truncation.
AsU32(x2) == x2 \div 2

\* A variant that keeps the destination box of the viewport the window
\* opened with.
retain_aspect_ratio_scale_at_open(s) ==
    [w |-> AsU32(InitialViewport.w2) - (AsU32(InitialViewport.w2) % 32),
     h |-> AsU32(InitialViewport.h2)]

\* retain_aspect_ratio_scale: the destination box (dst_width, dst_height) it
\* scales and pads the frame to, from the viewport `s` at the time of the call.
retain_aspect_ratio_scale(s) ==
    LET dst_width == AsU32(s.w2) IN
    [w |-> dst_width - (dst_width % 32), h |-> AsU32(s.h2)]

\* No frame has been displayed yet.
NoBox == [w |-> 0, h |-> 0]

\* -------------------------------------------------- values after construction
\* input.packets() has been read to its end by partition.
NoInput == [video |-> FALSE, audio |-> FALSE, vid |-> 0, aid |-> 1,
            packets |-> <<>>]
\* video_packets and audio_packets are locals of get_video_player.
NoRouted == [video |-> <<>>, audio |-> <<>>]
\* The audio iterator and the buffer are locals of get_video_player.
NoPipe == [dropped |-> TRUE]
NoWav == [channels |-> 0, samples |-> <<>>, finalized |-> FALSE]
\* VideoPlayer.audio loaded from a finalized buffer of the drained pipeline.
Loaded == [loaded |-> TRUE, drained |-> TRUE, finalized |-> TRUE, any |-> TRUE]
NotLoaded == [loaded |-> FALSE, drained |-> FALSE, finalized |-> FALSE,
              any |-> FALSE]

\* ------------------------------------------------------ the audio pipeline
\* Channel counts of the audio stream.
ChannelCounts == {1, 2}
\* nb_samples of the frame with number `id` that adecoder yields.
SamplesOf(id) == 1 + (id % 2)
\* The value of an Option::None audio frame.
NoAudio == [id |-> 0, nb |-> 0]
AudioFrame(id) == [id |-> id, nb |-> SamplesOf(id)]

\* The audio iterator right after decode_frame returned it.
NewAudioPipeline(pkts, ch) ==
    [packets   |-> pkts,    \* audio_packets, what is left of it
     sentinel  |-> TRUE,    \* once(Packet::empty()) not yet yielded
     eof       |-> FALSE,   \* adecoder has taken send_eof
     ready     |-> 0,       \* frames adecoder holds ready to be received
     nextId    |-> 1,       \* number of the next frame receive_frame yields
     frontiter |-> <<>>,    \* Flatten: the batch being handed out
     fused     |-> FALSE,   \* Flatten: the packet iterator returned None
     failed    |-> {},      \* kinds of failure met so far
     eofCalled |-> FALSE,   \* send_eof has been called on adecoder
     lateSend  |-> FALSE,   \* send_packet was called after send_eof
     eofAt     |-> 0,       \* number of the first frame released by the flush
     channels  |-> ch,      \* ch_layout().channels() of every frame
     bad       |-> {},      \* frames whose resampling failed
     emitted   |-> <<>>]    \* frames the iterator has yielded

\* The receive loop with the resampler: either every ready frame is resampled
\* and the batch is Some, or resampling the j-th fails and the closure returns
\* None, losing the frames received in this loop.
AudioReceiveLoop(p) ==
    UNION {
        LET avail == p.ready + r IN
        {[p |-> [p EXCEPT !.ready = 0, !.nextId = @ + avail],
          some |-> TRUE,
          batch |-> [i \in 1..avail |-> AudioFrame(p.nextId + i - 1)]]}
        \cup
        {[p |-> [p EXCEPT !.ready = avail - j, !.nextId = @ + j,
                          !.failed = @ \cup {"resample"},
                          !.bad = @ \cup {p.nextId + j - 1}],
          some |-> FALSE, batch |-> <<>>] : j \in 1..avail}
        : r \in 0..MaxRel}

\* The filter_map closure of the audio pipeline applied to one packet.
AudioClosure(p, pkt) ==
    UNION {IF s.ok THEN AudioReceiveLoop(s.p)
           ELSE {[p |-> s.p, some |-> FALSE, batch |-> <<>>]}
           : s \in SendOutcomes(p, pkt)}

\* FilterMap::next over audio_packets.chain(once(Packet::empty())).
RECURSIVE AudioFilterMapNext(_)
AudioFilterMapNext(p) ==
    IF p.packets # <<>> THEN
        UNION {IF o.some THEN {o} ELSE AudioFilterMapNext(o.p)
               : o \in AudioClosure([p EXCEPT !.packets = Tail(@)],
                                    Head(p.packets))}
    ELSE IF p.sentinel THEN
        UNION {IF o.some THEN {o} ELSE AudioFilterMapNext(o.p)
               : o \in AudioClosure([p EXCEPT !.sentinel = FALSE], "empty")}
    ELSE {[p |-> p, some |-> FALSE, batch |-> <<>>]}

\* Flatten::next of the audio iterator: the set of [p, item].
RECURSIVE AudioNext(_)
AudioNext(p) ==
    IF p.frontiter # <<>> THEN
        {[p |-> [p EXCEPT !.frontiter = Tail(@),
                          !.emitted = Append(@, Head(p.frontiter).id)],
          item |-> Head(p.frontiter)]}
    ELSE IF p.fused THEN {[p |-> p, item |-> NoAudio]}
    ELSE UNION {IF o.some THEN AudioNext([o.p EXCEPT !.frontiter = o.batch])
                ELSE {[p |-> [o.p EXCEPT !.fused = TRUE], item |-> NoAudio]}
                : o \in AudioFilterMapNext(p)}

\* The rest of the iterator, pulled until it returns None.
RECURSIVE DrainAll(_)
DrainAll(p) ==
    UNION {IF o.item = NoAudio THEN {[p |-> o.p, items |-> <<>>]}
           ELSE {[p |-> d.p, items |-> <<o.item>> \o d.items]
                 : d \in DrainAll(o.p)}
           : o \in AudioNext(p)}

\* ---------------------------------------------------------- the wav buffer
\* The samples written for one frame: data(0) cut into chunks of frame_size
\* bytes, `channels` samples of 2 bytes from each chunk.  A sample is written
\* as <<frame, chunk, channel>>.
WriteFrame(frame, own, channels) ==
    LET data_len == frame.nb * own * 2
        frame_size == 2 * channels
        chunks == data_len \div frame_size
    IN  [n \in 1..(chunks * channels) |->
            <<frame.id, 1 + ((n - 1) \div channels), (n - 1) % channels>>]

RECURSIVE WriteAll(_, _, _)
WriteAll(items, own, channels) ==
    IF items = <<>> THEN <<>>
    ELSE WriteFrame(Head(items), own, channels)
            \o WriteAll(Tail(items), own, channels)

\* A variant in which peeking at the first frame takes it out of the iterator.
FramesAfterPeekWithoutFirst(first, rest) == rest

\* The frames `for audio in audio` visits after audio.peek(): Peekable hands
\* out the peeked frame first.
FramesAfterPeek(first, rest) == <<first>> \o rest

\* A variant that stops reading the iterator after the peeked frame.
RestOfAudioUnread(p) == {[p |-> p, items |-> <<>>]}

\* What `for audio in audio` reads after the peeked frame.
RestOfAudio(p) == DrainAll(p)

\* A variant that builds a buffer without samples when there is no first frame.
build_wav_from_raw_without_first(ap) ==
    UNION {
        IF o.item = NoAudio
        THEN {[ok |-> TRUE,
               wav |-> [channels |-> o.p.channels, samples |-> <<>>,
                        finalized |-> TRUE],
               p |-> o.p]}
        ELSE {[ok |-> TRUE,
               wav |-> [channels  |-> o.p.channels,
                        samples   |-> WriteAll(FramesAfterPeek(o.item, d.items),
                                               o.p.channels, o.p.channels),
                        finalized |-> TRUE],
               p |-> d.p]
              : d \in RestOfAudio(o.p)}
        : o \in AudioNext(ap)}

\* build_wav_from_raw: the set of [ok, wav, p] it can end in.
build_wav_from_raw(ap) ==
    UNION {
        IF o.item = NoAudio
        THEN {[ok |-> FALSE, wav |-> NoWav, p |-> o.p]}
        ELSE {[ok |-> TRUE,
               wav |-> [channels  |-> o.p.channels,
                        samples   |-> WriteAll(FramesAfterPeek(o.item, d.items),
                                               o.p.channels, o.p.channels),
                        finalized |-> TRUE],
               p |-> d.p]
              : d \in RestOfAudio(o.p)}
        : o \in AudioNext(ap)}

\* ----------------------------------------------------------- packet routing
\* Stream indices of the container.
StreamIds == {0, 1, 2}

\* The packets of stream indices `ss` and payloads `ps`, numbered by position.
Demuxed(ss, ps) ==
    [i \in 1..Len(ss) |-> [pos |-> i, stream |-> ss[i], payload |-> ps[i]]]

RECURSIVE SeqsOver(_, _)
SeqsOver(S, n) ==
    IF n = 0 THEN {<<>>}
    ELSE {Append(q, x) : q \in SeqsOver(S, n - 1), x \in S}

\* A variant that hands every packet that is not video to the audio pipeline.
RouteUnfiltered(inp) ==
    LET is_video(x) == x.stream = inp.vid
        not_video(x) == ~is_video(x)
    IN  [video |-> SelectSeq(inp.packets, is_video),
         audio |-> SelectSeq(inp.packets, not_video)]

\* partition on the video stream index, then filter on the audio stream index.
Route(inp) ==
    LET is_video(x) == x.stream = inp.vid
        not_video(x) == ~is_video(x)
        is_audio(x) == x.stream = inp.aid
        video_packets == SelectSeq(inp.packets, is_video)
        not_video_packets == SelectSeq(inp.packets, not_video)
    IN  [video |-> video_packets,
         audio |-> SelectSeq(not_video_packets, is_audio)]

\* Containers whose packets the router is given: both streams selected.
RouterInputs ==
    {[video |-> TRUE, audio |-> TRUE, vid |-> va[1], aid |-> va[2],
      packets |-> Demuxed(ss, [i \in 1..Len(ss) |-> "data"])]
        : va \in {q \in StreamIds \X StreamIds : q[1] # q[2]},
          ss \in UNION {SeqsOver(StreamIds, n) : n \in 0..MaxInput}}

\* ---------------------------------------------------------------- actions
Init ==
    /\ pc = "playing"
    /\ input = NoInput
    /\ routed = NoRouted
    /\ apipe = NoPipe
    /\ wav = NoWav
    /\ audio = Loaded
    /\ screen = InitialViewport
    /\ box = NoBox
    /\ frames \in {NewPipeline(pkts) : pkts \in VideoPacketSeqs}
    /\ frames_played = 0
    /\ frame_rate \in FrameRates
    /\ instant = 0
    /\ broken = 0
    /\ plays = 0
    /\ callbacks = 0
    /\ shown = NoFrame
    /\ hist = <<>>
    /\ errorEver = FALSE
    /\ panicked = FALSE

\* One iteration of the loop of main: VideoPlayer::draw_video_by_frame.
draw_video_by_frame ==
    /\ pc = "playing"
    /\ UNCHANGED <<pc, screen>>
    /\ UNCHANGED startupVars
    /\ ~panicked
    /\ callbacks < MaxCallbacks
    /\ callbacks' = callbacks + 1
    /\ plays' = IF frames_played = 0 THEN plays + 1 ELSE plays
    /\ \E o \in PeekableNext(frames) :
        /\ frames' = o.p
        /\ shown' = o.item
        /\ box' = IF o.item = NoFrame THEN box
                  ELSE retain_aspect_ratio_scale(screen)
        /\ IF o.item = NoFrame THEN
               UNCHANGED <<frames_played, frame_rate, instant, broken, hist,
                           errorEver, panicked>>
           ELSE \E elapsed \in ElapsedValues :
               LET r == frame_limiter(broken, FrameDuration(frame_rate), elapsed)
                   bad == r.sleep = Underflow \/ r.broken = Underflow
               IN  /\ panicked' = bad
                   /\ broken' = r.broken
                   /\ errorEver' = (errorEver \/ r.error)
                   /\ hist' = Remember(hist,
                                [before |-> broken, elapsed |-> elapsed,
                                 slept |-> r.sleep, broken |-> r.broken,
                                 error |-> r.error, warn |-> r.warn])
                   /\ instant' = IF bad THEN instant ELSE callbacks + 1
                   /\ frames_played' = IF bad THEN frames_played
                                       ELSE frames_played + 1
                   /\ UNCHANGED frame_rate

\* The window is resized between two callbacks.
resize ==
    /\ pc = "playing"
    /\ screen' \in Viewports \ {screen}
    /\ UNCHANGED <<pc, playerVars>>
    /\ UNCHANGED startupVars

Next == draw_video_by_frame

\* ------------------------------------------------ the router on its own
InitRouter ==
    /\ pc = "route"
    /\ input \in RouterInputs
    /\ routed = NoRouted
    /\ apipe = NoPipe
    /\ wav = NoWav
    /\ audio = NotLoaded
    /\ screen = InitialViewport
    /\ box = NoBox
    /\ frames = NewPipeline(<<>>)
    /\ frames_played = 0
    /\ frame_rate \in FrameRates
    /\ instant = 0
    /\ broken = 0
    /\ plays = 0
    /\ callbacks = 0
    /\ shown = NoFrame
    /\ hist = <<>>
    /\ errorEver = FALSE
    /\ panicked = FALSE

\* Lines 244-251 of get_video_player: the packets are read and routed.
route_packets ==
    /\ pc = "route"
    /\ pc' = "routed"
    /\ routed' = Route(input)
    /\ input' = [input EXCEPT !.packets = <<>>]
    /\ UNCHANGED <<apipe, wav, audio, screen, playerVars>>

NextRouter == route_packets

\* ------------------------------------- the audio track materializer on its own
InitAudio ==
    /\ pc = "audio"
    /\ input = NoInput
    /\ routed = NoRouted
    /\ apipe \in {NewAudioPipeline(pkts, ch)
                    : pkts \in VideoPacketSeqs, ch \in ChannelCounts}
    /\ wav = NoWav
    /\ audio = NotLoaded
    /\ screen = InitialViewport
    /\ box = NoBox
    /\ frames = NewPipeline(<<>>)
    /\ frames_played = 0
    /\ frame_rate \in FrameRates
    /\ instant = 0
    /\ broken = 0
    /\ plays = 0
    /\ callbacks = 0
    /\ shown = NoFrame
    /\ hist = <<>>
    /\ errorEver = FALSE
    /\ panicked = FALSE

\* Line 257 of get_video_player: build_wav_from_raw(audio).
build_wav ==
    /\ pc = "audio"
    /\ \E res \in build_wav_from_raw(apipe) :
        /\ apipe' = res.p
        /\ wav' = res.wav
        /\ pc' = IF res.ok THEN "built" ELSE "nowav"
    /\ UNCHANGED <<input, routed, audio, screen, playerVars>>

NextAudio == build_wav

SpecAudio == InitAudio /\ [][NextAudio]_vars

SpecRouter == InitRouter /\ [][NextRouter]_vars

\* ------------------------------------------------- startup, then playback
\* Containers handed to get_video_player: either selected stream may be
\* absent, and an absent stream has no packets.
StartupInputs ==
    {inp \in {[video |-> v, audio |-> a, vid |-> 0, aid |-> 1,
               packets |-> Demuxed(ss, [i \in 1..Len(ss) |-> "data"])]
                 : v \in BOOLEAN, a \in BOOLEAN,
                   ss \in UNION {SeqsOver(StreamIds, n)
                                   : n \in 0..MaxStartupInput}}
        : \A i \in 1..Len(inp.packets) :
             /\ (inp.packets[i].stream = inp.vid => inp.video)
             /\ (inp.packets[i].stream = inp.aid => inp.audio)}

PayloadsOf(q) == [i \in 1..Len(q) |-> q[i].payload]

InitStartup ==
    /\ pc = "start"
    /\ input \in StartupInputs
    /\ routed = NoRouted
    /\ apipe = NoPipe
    /\ wav = NoWav
    /\ audio = NotLoaded
    /\ screen = InitialViewport
    /\ box = NoBox
    /\ frames = NewPipeline(<<>>)
    /\ frames_played = 0
    /\ frame_rate \in FrameRates
    /\ instant = 0
    /\ broken = 0
    /\ plays = 0
    /\ callbacks = 0
    /\ shown = NoFrame
    /\ hist = <<>>
    /\ errorEver = FALSE
    /\ panicked = FALSE

\* get_video_player returning Err: main returns before the render loop.
StartupFails ==
    /\ pc' = "failed"
    /\ UNCHANGED <<frames, frames_played, frame_rate, instant, broken>>

\* get_video_player, as main calls it: stream selection, routing, decode_frame,
\* build_wav_from_raw, load_sound_from_bytes, and the VideoPlayer.
get_video_player ==
    /\ pc = "start"
    /\ input' = NoInput
    /\ routed' = NoRouted
    /\ apipe' = NoPipe
    /\ wav' = NoWav
    /\ UNCHANGED <<plays, callbacks, shown, hist, errorEver, panicked, box,
                   screen>>
    /\ IF ~input.video \/ ~input.audio
       THEN StartupFails /\ audio' = NotLoaded
       ELSE LET r == Route(input)
                video_packets == PayloadsOf(r.video)
                audio_packets == PayloadsOf(r.audio)
            IN  IF video_packets = <<>> \/ audio_packets = <<>>
                THEN StartupFails /\ audio' = NotLoaded
                ELSE \E opened \in BOOLEAN, ch \in ChannelCounts :
                     IF ~opened
                     THEN StartupFails /\ audio' = NotLoaded
                     ELSE \E res \in build_wav_from_raw(
                                        NewAudioPipeline(audio_packets, ch)) :
                          LET built ==
                                [loaded    |-> res.ok,
                                 drained   |-> res.p.fused
                                                /\ res.p.frontiter = <<>>,
                                 finalized |-> res.wav.finalized,
                                 any       |-> res.p.emitted # <<>>]
                          IN  /\ audio' = built
                              /\ IF ~res.ok THEN StartupFails
                                 ELSE /\ pc' = "playing"
                                      /\ frames' = NewPipeline(video_packets)
                                      /\ frames_played' = 0
                                      /\ instant' = 0
                                      /\ broken' = 0
                                      /\ UNCHANGED frame_rate

NextStartup ==
    \/ get_video_player
    \/ (callbacks < MaxStartupCallbacks /\ draw_video_by_frame)
    \/ resize

SpecStartup == InitStartup /\ [][NextStartup]_vars

Spec == Init /\ [][Next]_vars

\* ----------------------------------------------------------------- claims
fd == FrameDuration(frame_rate)
Shown == 1..Len(hist)
Ahead(h) == h.elapsed < fd
Slack(h) == fd - h.elapsed
Overrun(h) == h.elapsed - fd

\* Sum of f over hist[i..j].
RECURSIVE SumOver(_, _, _)
SumOver(F(_), i, j) == IF i > j THEN 0 ELSE F(hist[i]) + SumOver(F, i + 1, j)

\* hist[i] is a late frame that found no debt, and hist[i+1..j] are all ahead
\* of schedule.
CatchUp(i, j) ==
    /\ i < j
    /\ hist[i].before = 0
    /\ ~Ahead(hist[i])
    /\ \A k \in (i + 1)..j : Ahead(hist[k])

\* C1: on every displayed frame with elapsed < frameInterval, with
\* slack = frameInterval - elapsed: if slack >= debt the pacer sleeps exactly
\* slack - debt and the debt becomes 0; otherwise it sleeps 0 and the debt
\* decreases by exactly slack.
C1_AheadRepays ==
    \A i \in Shown :
        LET h == hist[i] IN
        Ahead(h) =>
            IF Slack(h) >= h.before
            THEN h.slept = Slack(h) - h.before /\ h.broken = 0
            ELSE h.slept = 0 /\ h.broken = h.before - Slack(h)

\* Both branches have been taken with a debt outstanding.
C1_Witness ==
    /\ \E i \in Shown : Ahead(hist[i]) /\ hist[i].before > 0
                        /\ Slack(hist[i]) >= hist[i].before
    /\ \E i \in Shown : Ahead(hist[i]) /\ Slack(hist[i]) < hist[i].before

\* C2: the debt is never negative, every sleep the pacer requests is
\* non-negative, and no Duration subtraction of frame_limiter underflows.
C2_NoUnderflow ==
    /\ ~panicked
    /\ broken >= 0
    /\ \A i \in Shown :
        /\ hist[i].broken >= 0
        /\ hist[i].slept = NoSleep \/ hist[i].slept >= 0
        /\ hist[i].slept = NoSleep <=> ~Ahead(hist[i])

\* A frame ahead of schedule met a debt larger than its slack, and the debt is
\* still outstanding.
C2_Witness ==
    /\ broken > 0
    /\ Len(hist) > 0
    /\ Ahead(hist[Len(hist)])
    /\ Slack(hist[Len(hist)]) < hist[Len(hist)].before

\* C3 (as claimed): on every behind-schedule frame the overrun is added to the
\* debt, and if the resulting debt exceeds 1000 ms the extended-debt warning
\* is emitted during that same frame.
C3_WarnsOnResultingDebt ==
    \A i \in Shown :
        LET h == hist[i] IN
        ~Ahead(h) =>
            /\ h.broken = h.before + Overrun(h)
            /\ h.broken > ExtendedDebt => h.error

\* C4 (as claimed): playback of the waveform is triggered on the first
\* callback and never again, whatever the pipeline yields.
C4_PlayedOnce == callbacks >= 1 => plays = 1

\* C5 (as claimed): with frameInterval = 33 ms and no debt, elapsed 53, 0, 0, 0
\* gives: frame 2 sleeps 13 and debt 20 -> 7, frame 3 sleeps 26 and debt
\* 7 -> 0, frame 4 sleeps 33 and debt stays 0.
Scenario53 ==
    /\ fd = 33
    /\ Len(hist) = 4
    /\ hist[1].before = 0
    /\ <<hist[1].elapsed, hist[2].elapsed, hist[3].elapsed, hist[4].elapsed>>
         = <<53, 0, 0, 0>>

C5_ScenarioAsClaimed ==
    Scenario53 =>
        /\ hist[1].broken = 20
        /\ hist[2].slept = 13 /\ hist[2].before = 20 /\ hist[2].broken = 7
        /\ hist[3].slept = 26 /\ hist[3].before = 7 /\ hist[3].broken = 0
        /\ hist[4].slept = 33 /\ hist[4].before = 0 /\ hist[4].broken = 0

\* C5 (amended): in that scenario frame 2 sleeps 13 and debt goes 20 -> 0,
\* frame 3 sleeps 33 and debt stays 0, frame 4 sleeps 33 and debt stays 0.
C5_Scenario ==
    Scenario53 =>
        /\ hist[1].broken = 20
        /\ hist[2].slept = 13 /\ hist[2].before = 20 /\ hist[2].broken = 0
        /\ hist[3].slept = 33 /\ hist[3].before = 0 /\ hist[3].broken = 0
        /\ hist[4].slept = 33 /\ hist[4].before = 0 /\ hist[4].broken = 0

C5_Witness == Scenario53 /\ frames_played = 4

\* C6: from debt 0, after one frame with elapsed = frameInterval + D followed
\* only by frames ahead of schedule, the debt is 0 at every frame by which the
\* slack accumulated over the following frames has reached D.
C6_CatchUp ==
    \A i \in Shown : \A j \in Shown :
        (CatchUp(i, j) /\ SumOver(Slack, i + 1, j) >= Overrun(hist[i]))
            => hist[j].broken = 0

\* The debt was repaid over more than one frame: the first following frame left
\* some of it, a later one cleared it, and the one after found none.
C6_Witness ==
    \E i \in Shown : \E j \in Shown :
        /\ CatchUp(i, j)
        /\ j >= i + 3
        /\ hist[i + 1].broken > 0
        /\ hist[j - 1].broken = 0
        /\ hist[j].broken = 0

\* The late frame hist[i] found no debt and hist[i+1..j] measured elapsed = 0.
CatchUpZero(i, j) ==
    CatchUp(i, j) /\ \A k \in (i + 1)..j : hist[k].elapsed = 0

Slept(h) == h.slept
Shortfall(h) == fd - h.slept

\* C7 (as claimed): after one frame with elapsed = frameInterval + D, the
\* sleeps of the following frames with elapsed = 0 sum to at most D.
C7_SleepsAtMostD ==
    \A i \in Shown : \A j \in Shown :
        CatchUpZero(i, j) => SumOver(Slept, i + 1, j) <= Overrun(hist[i])

\* C7 (amended): from debt 0, after one frame with elapsed = frameInterval + D,
\* the sleeps of the following frames with elapsed = 0 fall short of
\* frameInterval by at most D in total: by D less the debt still outstanding.
C7_ShortfallAtMostD ==
    \A i \in Shown : \A j \in Shown :
        CatchUpZero(i, j) =>
            /\ SumOver(Shortfall, i + 1, j) <= Overrun(hist[i])
            /\ SumOver(Shortfall, i + 1, j) = Overrun(hist[i]) - hist[j].broken

\* Two frames with elapsed = 0 followed a late frame with D > 0 and repaid it.
C7_Witness ==
    \E i \in Shown : \E j \in Shown :
        /\ CatchUpZero(i, j)
        /\ j >= i + 2
        /\ Overrun(hist[i]) > 0
        /\ hist[j].broken = 0

\* C8 (as claimed): in every run in which consecutive late frames take the
\* debt past 1000 ms, the extended-debt advisory fires at least once and
\* playback does not halt.  Stated of a run whose pipeline has ended, after
\* which frame_limiter is not called again.
C8_AdvisoryFires ==
    (/\ frames.fused
     /\ \E i \in Shown : ~Ahead(hist[i]) /\ hist[i].broken > ExtendedDebt)
        => errorEver /\ ~panicked

\* C9 (as claimed): a callback that finds the pipeline exhausted hands no
\* frame to the renderer, does not sleep, triggers no audio, and leaves
\* lastFrameTime, debt and the frames-played count unchanged.  The first
\* callback, which is the one meant to start the audio, is left out.
C9_ExhaustedDoesNothing ==
    [][(callbacks >= 1 /\ callbacks' = callbacks + 1 /\ shown' = NoFrame)
        => /\ plays' = plays
           /\ UNCHANGED <<instant, broken, frames_played, hist>>]_vars

Received == frames.nextId - 1
NoFailure == frames.failed = {}

\* C12 (as claimed): the video pipeline never emits more frames than the
\* decoder's receive calls yield, and whenever its sequence has ended the
\* flush has been submitted and every frame the decoder released after the
\* flush has been emitted.
C12_FlushedFramesEmitted ==
    /\ frames_played <= Received
    /\ frames.fused => frames.eofCalled /\ ~frames.lostFlushed

\* C12 (amended): the video pipeline never emits more frames than the
\* decoder's receive calls yield, and whenever its sequence has ended the
\* flush has been submitted and every frame received from the decoder (the
\* ones released by the flush included) has been emitted, except those
\* dropped by a failed pixel-format conversion in their batch or by their
\* own failed letterbox rescale; without such a failure none is dropped or
\* left in the decoder.
C12_FlushedFramesEmittedOrLost ==
    /\ frames_played <= Received
    /\ frames.fused =>
        /\ frames.eofCalled
        /\ frames_played + frames.lost = Received
        /\ frames.failed \cap {"scaler", "letterbox"} = {}
              => frames.lost = 0 /\ frames.ready = 0

\* The sequence has ended after a flush that released frames, all displayed,
\* although a frame received before the flush was dropped.
C12_Witness ==
    /\ frames.fused
    /\ frames.eof
    /\ Received >= frames.eofAt
    /\ ~frames.lostFlushed
    /\ frames.lost > 0
    /\ frames_played >= 2

\* C18 (as claimed): the decoder receives the flush only after every real
\* packet of the substream has been submitted, and no real packet is
\* submitted after the flush.
C18_FlushComesLast ==
    /\ frames.eofCalled => frames.packets = <<>>
    /\ ~frames.lateSend

\* Sum of elapsed and requested sleep of one displayed frame.
Spent(h) == h.elapsed + (IF h.slept = NoSleep THEN 0 ELSE h.slept)

\* C19: from debt 0, over any run of displayed frames the measured elapsed
\* times and requested sleeps sum to the number of frames times
\* frameInterval plus the debt outstanding at the end.
C19_Conservation ==
    \A i \in Shown : \A j \in Shown :
        (i <= j /\ hist[i].before = 0) =>
            SumOver(Spent, i, j) = (j - i + 1) * fd + hist[j].broken

\* Four frames from debt 0: one late, one repaying in part, one repaying the
\* rest and sleeping, one more with the debt still 0.
C19_Witness ==
    /\ Len(hist) = 4
    /\ hist[1].before = 0
    /\ ~Ahead(hist[1]) /\ hist[1].broken > 0
    /\ hist[2].slept = 0 /\ hist[2].broken > 0
    /\ hist[3].slept # NoSleep /\ hist[3].slept > 0 /\ hist[3].broken = 0
    /\ hist[4].broken = 0

\* The step consumed an item of packets.chain(once(Packet::empty())).
Submitted ==
    frames'.packets # frames.packets \/ frames'.sentinel # frames.sentinel

\* C20: absent failures, each callback displays at most one frame, the frames
\* displayed are the frames received from the decoder in receive order with
\* none duplicated, skipped or reordered, a packet is submitted only once all
\* frames of the packets before it have been displayed, and only in a callback
\* that needs a frame.
C20_InOrder ==
    [][frames'.failed = {} =>
        /\ frames_played' <= frames_played + 1
        /\ shown' # NoFrame =>
              shown' = frames_played' /\ frames_played' = frames_played + 1
        /\ Received' = frames_played' + Len(frames'.frontiter)
        /\ frames'.ready = 0
        /\ Submitted => frames.frontiter = <<>>
        /\ Submitted => shown' # NoFrame \/ frames'.fused]_vars

\* Three frames displayed without failure, one more waiting in the batch of
\* the second packet, the flush still to come.
C20_Witness ==
    /\ NoFailure
    /\ frames_played = 3
    /\ frames.frontiter # <<>>
    /\ frames.packets = <<>>
    /\ frames.sentinel

\* The positions of a sequence of packets, and its packets as a set.
Pos(q) == [i \in 1..Len(q) |-> q[i].pos]
Elems(q) == {q[i] : i \in 1..Len(q)}
Increasing(q) == \A i \in 1..Len(q) : \A j \in 1..Len(q) : i < j => q[i] < q[j]

\* C13: the router sends each packet to at most one pipeline: the video
\* substream is exactly the packets of the selected video stream and the audio
\* substream exactly those of the selected audio stream, each in the original
\* order, and the packets of any other stream are dropped.
C13_Routing ==
    [][(pc = "route" /\ pc' = "routed") =>
        /\ Elems(routed'.video)
             = {x \in Elems(input.packets) : x.stream = input.vid}
        /\ Elems(routed'.audio)
             = {x \in Elems(input.packets) : x.stream = input.aid}
        /\ Increasing(Pos(routed'.video))
        /\ Increasing(Pos(routed'.audio))
        /\ Elems(routed'.video) \cap Elems(routed'.audio) = {}]_vars

\* Packets 1 and 4 went to the video pipeline, packet 3 to the audio pipeline,
\* and packet 2, of a third stream, was dropped.
C13_Witness ==
    /\ pc = "routed"
    /\ Len(routed.video) = 2
    /\ Len(routed.audio) = 1
    /\ routed.video[1].pos = 1
    /\ routed.audio[1].pos = 3
    /\ routed.video[2].pos = 4

\* Frames 1 .. n in order, leaving out those in `out`.
RECURSIVE UpToExcept(_, _)
UpToExcept(n, out) ==
    IF n = 0 THEN <<>>
    ELSE IF n \in out THEN UpToExcept(n - 1, out)
    ELSE Append(UpToExcept(n - 1, out), n)

AudioDone == pc \in {"built", "nowav"}

\* C11 (as claimed): a resample failure drops only the frame it happened on:
\* every other frame received from the decoder, those of the same packet
\* included, is emitted, in order.
C11_OnlyFailedFrameDropped ==
    AudioDone => apipe.emitted = UpToExcept(apipe.nextId - 1, apipe.bad)

\* Samples the buffer must hold for the k-th frame the pipeline produced.
SamplesFor(k) == SamplesOf(apipe.emitted[k]) * apipe.channels
RECURSIVE SamplesBefore(_)
SamplesBefore(k) == IF k <= 1 THEN 0 ELSE SamplesBefore(k - 1) + SamplesFor(k - 1)

\* C17: the waveform buffer holds the samples of every frame the audio
\* pipeline produced, the first included, each exactly once and in pipeline
\* order: its sample count is the sum of the per-frame sample counts.
C17_WavHoldsEveryFrame ==
    pc = "built" =>
        /\ apipe.fused /\ apipe.frontiter = <<>>
        /\ wav.finalized
        /\ wav.channels = apipe.channels
        /\ Len(wav.samples) = SamplesBefore(Len(apipe.emitted) + 1)
        /\ \A k \in 1..Len(apipe.emitted) : \A m \in 1..SamplesFor(k) :
              wav.samples[SamplesBefore(k) + m]
                = <<apipe.emitted[k], 1 + ((m - 1) \div apipe.channels),
                    (m - 1) % apipe.channels>>

\* A stereo buffer built from three frames.
C17_Witness ==
    /\ pc = "built"
    /\ apipe.channels = 2
    /\ Len(apipe.emitted) = 3
    /\ Len(wav.samples) = 10

\* C14: when the selected video or audio stream is absent, or the audio
\* pipeline produces no frame, startup fails, and after a failed startup no
\* render callback runs.
C14_StartupFails ==
    [][/\ (pc = "start" /\ pc' # "start"
            /\ (~input.video \/ ~input.audio \/ ~audio'.any))
          => (pc' = "failed" /\ callbacks' = 0)
       /\ pc = "failed" => (pc' = "failed" /\ callbacks' = callbacks)]_vars

\* Startup failed on an audio pipeline that was run and produced no frame.
C14_Witness ==
    pc = "failed" /\ audio.drained /\ ~audio.any /\ callbacks = 0

\* The video pipeline has been pulled from, or a callback has run.
VideoTouched ==
    \/ callbacks > 0
    \/ shown # NoFrame
    \/ frames.nextId > 1 \/ frames.eofCalled \/ frames.fused
    \/ frames.failed # {}

\* C15: before the first pull from the video pipeline, and so before the first
\* frame is handed to the renderer, the audio pipeline has been drained to its
\* end and the waveform buffer finalized and loaded.
C15_AudioBuiltFirst ==
    VideoTouched =>
        pc = "playing" /\ audio.drained /\ audio.finalized /\ audio.loaded

\* The first frame has been displayed.
C15_Witness ==
    callbacks = 1 /\ shown # NoFrame /\ audio.drained /\ audio.finalized

\* C16: a callback that displays a frame had it made for the box sampled from
\* the viewport at that pull: the width is the largest multiple of 32 not
\* above the viewport width, the height the viewport height in whole pixels.
C16_BoxSampledAtPull ==
    [][(callbacks' = callbacks + 1 /\ shown' # NoFrame) =>
          /\ box'.w % 32 = 0
          /\ 2 * box'.w <= screen.w2 /\ screen.w2 < 2 * (box'.w + 32)
          /\ 2 * box'.h <= screen.h2 /\ screen.h2 < 2 * (box'.h + 1)]_vars

\* The second frame was made for a viewport the window was resized to after
\* the player was built.
C16_Witness ==
    /\ frames_played = 2 /\ shown # NoFrame
    /\ screen = [w2 |-> 129, h2 |-> 97]
    /\ box = [w |-> 64, h |-> 48]

====
